---- MODULE Spec2Model ----
(***************************************************************************)
(* Lockwars: the game state (game.rs), the cooldown token (cooldown.rs),   *)
(* the player data (player.rs) and the game settings used by main.rs.      *)
(* Time is a discrete monotonic clock `now` (Instant::now()).              *)
(***************************************************************************)
EXTENDS Integers, Naturals, Sequences, FiniteSets, TLC

VARIABLES settings, cells, players, now, status, last

vars == <<settings, cells, players, now, status, last>>

(***************************************************************************)
(* Bounds of the exploration.                                              *)
(***************************************************************************)
\* the clock stops advancing after MaxTime units
MaxTime == 1

(***************************************************************************)
(* Integer width: u32 scaled to Width bits.                                *)
(***************************************************************************)
Width == 6
U32Max == 2 ^ Width - 1

\* u32::wrapping_add, the addition that wraps around the width
wrapping_add(a, b) == (a + b) % (U32Max + 1)

\* u32::saturating_add
saturating_add(a, b) == IF a + b > U32Max THEN U32Max ELSE a + b

Min(a, b) == IF a < b THEN a ELSE b

(***************************************************************************)
(* Players (player.rs).                                                    *)
(***************************************************************************)
Player == {"Left", "Right"}

toggle(player) == IF player = "Left" THEN "Right" ELSE "Left"

(***************************************************************************)
(* Cooldown (cooldown.rs): {duration, instant}.                            *)
(***************************************************************************)
\* Cooldown::new(duration) evaluated at clock value t
CooldownNew(duration, t) == [duration |-> duration, instant |-> t]

\* is_over with a strict comparison
is_over_strictly(cooldown, t) == t - cooldown.instant > cooldown.duration

\* self.instant.elapsed() >= self.duration, at clock value t
is_over(cooldown, t) == t - cooldown.instant >= cooldown.duration

\* a reset that moves the instant forward by one period only
reset_by_period(cooldown, t) == [cooldown EXCEPT !.instant = cooldown.instant + cooldown.duration]

\* Cooldown::reset at clock value t
reset(cooldown, t) == [cooldown EXCEPT !.instant = t]

(***************************************************************************)
(* Game settings (game.rs GameSettings, values as main.rs builds them,     *)
(* scaled to the model's board).                                           *)
(***************************************************************************)
n_columns == 2
n_rows == 2
n_total_columns == 2 * n_columns

\* Duration::from_secs(1), in clock units of one second
CooldownDuration == 1

Rows == 0 .. (n_rows - 1)
Columns == 0 .. (n_total_columns - 1)
\* the indices for which Array2::get returns Some
Positions == Rows \X Columns
\* positions for which Array2::get returns None: a row, a column past the end
OutOfBounds == {<<n_rows, 0>>, <<0, n_total_columns>>}
\* the (row, column) arguments the callers pass: the first row and the
\* positions out of bounds
AnyPosition == ({0} \X Columns) \cup OutOfBounds

InBounds(position) == position \in Positions

None == [kind |-> "None"]

(***************************************************************************)
(* Objects (main.rs player_data, create_game): OwnedObject flattened to    *)
(* one record {owner, kind, health, max_health, kind-specific fields}.     *)
(***************************************************************************)
KeyObject(generation, health, t) ==
    [kind |-> "Key", generation |-> generation,
     cooldown |-> CooldownNew(CooldownDuration, t),
     health |-> health, max_health |-> health]

FireObject(damage, health, t) ==
    [kind |-> "Fire", damage |-> damage,
     cooldown |-> CooldownNew(CooldownDuration, t),
     health |-> health, max_health |-> health]

BarrierObject(health) ==
    [kind |-> "Barrier", health |-> health, max_health |-> health]

\* OwnedObject { object, owner }
Owned(object, owner) == [o \in (DOMAIN object) \cup {"owner"} |->
                            IF o = "owner" THEN owner ELSE object[o]]

\* number of entries of the placement catalog
NPlacements == 3

\* get_placement handing out objects whose cooldown was created with the
\* placement, when the game was built
get_placement_made_at_start(index, t) ==
    CASE index = 0 -> [tag |-> "Some", cost |-> 20, object |-> KeyObject(10, 10, 0)]
      [] index = 1 -> [tag |-> "Some", cost |-> 40, object |-> FireObject(10, 10, 0)]
      [] index = 2 -> [tag |-> "Some", cost |-> 20, object |-> BarrierObject(11)]
      [] OTHER -> [tag |-> "None"]

\* GameSettings::get_placement(index), evaluated at clock value t: the
\* closure builds the object, and with it the object's Cooldown::new
get_placement(index, t) ==
    CASE index = 0 -> [tag |-> "Some", cost |-> 20, object |-> KeyObject(10, 10, t)]
      [] index = 1 -> [tag |-> "Some", cost |-> 40, object |-> FireObject(10, 10, t)]
      [] index = 2 -> [tag |-> "Some", cost |-> 20, object |-> BarrierObject(11)]
      [] OTHER -> [tag |-> "None"]

\* player::Data { keys, placements }, each placement with its own cooldown
player_data(keys, t) ==
    [keys |-> keys,
     placements |-> [i \in 0 .. (NPlacements - 1) |->
                        [cooldown |-> CooldownNew(CooldownDuration, t)]]]

(***************************************************************************)
(* Game::clear_cell                                                        *)
(***************************************************************************)
\* clear_cell reporting an error when the cell holds no object
clear_cell_errors_on_empty(c, player, position) ==
    IF ~InBounds(position) \/ c[position] = None
    THEN [result |-> "Err", cells |-> c]
    ELSE [result |-> "Ok", cells |-> [c EXCEPT ![position] = None]]

\* clear_cell that removes an object only for its owner
clear_cell_of_owner_only(c, player, position) ==
    IF ~InBounds(position)
    THEN [result |-> "Err", cells |-> c]
    ELSE IF c[position] # None /\ c[position].owner # player
         THEN [result |-> "Ok", cells |-> c]
         ELSE [result |-> "Ok", cells |-> [c EXCEPT ![position] = None]]

clear_cell(c, player, position) ==
    IF ~InBounds(position)
    THEN [result |-> "Err", cells |-> c]
    ELSE [result |-> "Ok", cells |-> [c EXCEPT ![position] = None]]

(***************************************************************************)
(* Game::place_object: Err (invalid position) before Ok(false) (no such    *)
(* placement, keys.checked_sub(cost) is None) before Ok(true).             *)
(***************************************************************************)
\* u32::checked_sub
checked_sub(a, b) == IF a < b THEN [tag |-> "None"] ELSE [tag |-> "Some", value |-> a - b]

\* place_object writing the cell before it checks the keys
place_object_writes_first(c, p, t, player, position, index) ==
    IF ~InBounds(position)
    THEN [result |-> "Err", cells |-> c, players |-> p]
    ELSE LET placement == get_placement(index, t) IN
         IF placement.tag = "None"
         THEN [result |-> "false", cells |-> c, players |-> p]
         ELSE LET remaining == checked_sub(p[player].keys, placement.cost)
                  written == [c EXCEPT ![position] = Owned(placement.object, player)] IN
              IF remaining.tag = "None"
              THEN [result |-> "false", cells |-> written, players |-> p]
              ELSE [result |-> "true", cells |-> written,
                    players |-> [p EXCEPT ![player].keys = remaining.value]]

\* place_object resetting the placement's cooldown before it checks the keys
place_object_resets_cooldown_first(c, p, t, player, position, index) ==
    IF ~InBounds(position)
    THEN [result |-> "Err", cells |-> c, players |-> p]
    ELSE LET placement == get_placement(index, t) IN
         IF placement.tag = "None"
         THEN [result |-> "false", cells |-> c, players |-> p]
         ELSE LET remaining == checked_sub(p[player].keys, placement.cost)
                  consumed == [p EXCEPT ![player].placements[index].cooldown = reset(@, t)] IN
              IF remaining.tag = "None"
              THEN [result |-> "false", cells |-> c, players |-> consumed]
              ELSE [result |-> "true",
                    cells |-> [c EXCEPT ![position] = Owned(placement.object, player)],
                    players |-> [consumed EXCEPT ![player].keys = remaining.value]]

\* place_object keeping an occupied cell's object instead of overwriting it
place_object_keeps_occupant(c, p, t, player, position, index) ==
    IF ~InBounds(position)
    THEN [result |-> "Err", cells |-> c, players |-> p]
    ELSE LET placement == get_placement(index, t) IN
         IF placement.tag = "None"
         THEN [result |-> "false", cells |-> c, players |-> p]
         ELSE LET remaining == checked_sub(p[player].keys, placement.cost) IN
              IF remaining.tag = "None"
              THEN [result |-> "false", cells |-> c, players |-> p]
              ELSE [result |-> "true",
                    cells |-> IF c[position] = None
                              THEN [c EXCEPT ![position] = Owned(placement.object, player)]
                              ELSE c,
                    players |-> [p EXCEPT ![player].keys = remaining.value]]

\* place_object recording the opponent as the owner of the new object
place_object_for_opponent(c, p, t, player, position, index) ==
    IF ~InBounds(position)
    THEN [result |-> "Err", cells |-> c, players |-> p]
    ELSE LET placement == get_placement(index, t) IN
         IF placement.tag = "None"
         THEN [result |-> "false", cells |-> c, players |-> p]
         ELSE LET remaining == checked_sub(p[player].keys, placement.cost) IN
              IF remaining.tag = "None"
              THEN [result |-> "false", cells |-> c, players |-> p]
              ELSE [result |-> "true",
                    cells |-> [c EXCEPT ![position] = Owned(placement.object, toggle(player))],
                    players |-> [p EXCEPT ![player].keys = remaining.value]]

\* place_object giving the new object to the owner of the object it replaces
place_object_keeps_owner(c, p, t, player, position, index) ==
    IF ~InBounds(position)
    THEN [result |-> "Err", cells |-> c, players |-> p]
    ELSE LET placement == get_placement(index, t) IN
         IF placement.tag = "None"
         THEN [result |-> "false", cells |-> c, players |-> p]
         ELSE LET remaining == checked_sub(p[player].keys, placement.cost) IN
              IF remaining.tag = "None"
              THEN [result |-> "false", cells |-> c, players |-> p]
              ELSE [result |-> "true",
                    cells |-> [c EXCEPT ![position] =
                                Owned(placement.object,
                                      IF c[position] = None THEN player ELSE c[position].owner)],
                    players |-> [p EXCEPT ![player].keys = remaining.value]]

place_object(c, p, t, player, position, index) ==
    IF ~InBounds(position)
    THEN [result |-> "Err", cells |-> c, players |-> p]
    ELSE LET placement == get_placement(index, t) IN
         IF placement.tag = "None"
         THEN [result |-> "false", cells |-> c, players |-> p]
         ELSE LET remaining == checked_sub(p[player].keys, placement.cost) IN
              IF remaining.tag = "None"
              THEN [result |-> "false", cells |-> c, players |-> p]
              ELSE [result |-> "true",
                    cells |-> [c EXCEPT ![position] = Owned(placement.object, player)],
                    players |-> [p EXCEPT ![player].keys = remaining.value]]

(***************************************************************************)
(* Cell::receive_damage                                                    *)
(***************************************************************************)
\* receive_damage comparing with >=: an object is left with health 0
receive_damage_keeps_zero(cell, damage) ==
    IF cell = None THEN cell
    ELSE IF cell.health >= damage
         THEN [cell EXCEPT !.health = cell.health - damage]
         ELSE None

\* receive_damage leaving the object in its cell when its health runs out
receive_damage_keeps_dead(cell, damage) ==
    IF cell = None THEN cell
    ELSE IF cell.health > damage
         THEN [cell EXCEPT !.health = cell.health - damage]
         ELSE [cell EXCEPT !.health = 0]

receive_damage(cell, damage) ==
    IF cell = None THEN cell
    ELSE IF cell.health > damage
         THEN [cell EXCEPT !.health = cell.health - damage]
         ELSE None

(***************************************************************************)
(* Game::find_target.  Every cell is a RefCell: while update() visits the  *)
(* cell at `borrowed` it holds that cell's borrow_mut(), so cell.borrow()  *)
(* on it panics (BorrowError).                                             *)
(***************************************************************************)
\* the column range of the half of the player who is not targeted
column_range_of_own_half(player) ==
    IF player = "Left"
    THEN [i \in 1 .. n_columns |-> n_columns + i - 1]
    ELSE [i \in 1 .. n_columns |-> n_columns - i]

\* (0..n_columns).rev() when the targeted player is Left,
\* n_columns..n_total_columns when it is Right
column_range(player) ==
    IF player = "Left"
    THEN [i \in 1 .. n_columns |-> n_columns - i]
    ELSE [i \in 1 .. n_columns |-> n_columns + i - 1]

RECURSIVE find_in(_, _, _, _, _)
find_in(c, row, range, i, borrowed) ==
    IF i > Len(range) THEN [tag |-> "None"]
    ELSE LET position == <<row, range[i]>> IN
         IF position = borrowed THEN [tag |-> "Panic"]
         ELSE IF c[position] # None THEN [tag |-> "Some", position |-> position]
         ELSE find_in(c, row, range, i + 1, borrowed)

find_target(c, row, player, borrowed) ==
    find_in(c, row, column_range(player), 1, borrowed)

(***************************************************************************)
(* Game::update: one pass over cells.indexed_iter() (row-major).  The pass *)
(* state is {cells, players, panicked}; t is the clock value.              *)
(***************************************************************************)
\* the cells in the reverse of the row-major order
Order_reversed ==
    [k \in 1 .. (n_rows * n_total_columns) |->
        <<(n_rows * n_total_columns - k) \div n_total_columns,
          (n_rows * n_total_columns - k) % n_total_columns>>]

\* the row-major order of Array2::indexed_iter
Order == [k \in 1 .. (n_rows * n_total_columns) |->
            <<(k - 1) \div n_total_columns, (k - 1) % n_total_columns>>]

\* the Key arm crediting the player in whose half the Key stands
key_arm_credits_half(st, position, t, max_keys) ==
    LET object == st.cells[position]
        holder == IF position[2] < n_columns THEN "Left" ELSE "Right"
    IN IF is_over(object.cooldown, t)
       THEN [st EXCEPT
               !.cells[position].cooldown = reset(object.cooldown, t),
               !.players[holder].keys =
                   Min(saturating_add(st.players[holder].keys, object.generation), max_keys)]
       ELSE st

\* the Key arm: cooldown.execute(|| keys = keys.saturating_add(generation).min(max_keys))
key_arm(st, position, t, max_keys) ==
    LET object == st.cells[position] IN
    IF is_over(object.cooldown, t)
    THEN [st EXCEPT
            !.cells[position].cooldown = reset(object.cooldown, t),
            !.players[object.owner].keys =
                Min(saturating_add(st.players[object.owner].keys, object.generation), max_keys)]
    ELSE st

\* the Fire arm: cooldown.execute(|| find_target(row, owner.toggle()) ... receive_damage(damage))
\* the Fire arm resetting the cooldown only when it found a target
fire_arm_resets_on_hit(st, position, t) ==
    LET object == st.cells[position] IN
    IF is_over(object.cooldown, t)
    THEN LET after_reset == [st EXCEPT !.cells[position].cooldown = reset(object.cooldown, t)]
             target == find_target(after_reset.cells, position[1], toggle(object.owner), position)
         IN CASE target.tag = "Panic" -> [after_reset EXCEPT !.panicked = TRUE]
              [] target.tag = "None" -> st
              [] target.tag = "Some" ->
                    [after_reset EXCEPT !.cells[target.position] =
                        receive_damage(after_reset.cells[target.position], object.damage)]
    ELSE st

fire_arm(st, position, t) ==
    LET object == st.cells[position] IN
    IF is_over(object.cooldown, t)
    THEN LET after_reset == [st EXCEPT !.cells[position].cooldown = reset(object.cooldown, t)]
             target == find_target(after_reset.cells, position[1], toggle(object.owner), position)
         IN CASE target.tag = "Panic" -> [after_reset EXCEPT !.panicked = TRUE]
              [] target.tag = "None" -> after_reset
              [] target.tag = "Some" ->
                    [after_reset EXCEPT !.cells[target.position] =
                        receive_damage(after_reset.cells[target.position], object.damage)]
    ELSE st

\* the body of the loop with a Barrier arm that wears the barrier down
visit_wears_barriers(st, position, t, max_keys) ==
    LET object == st.cells[position] IN
    CASE object = None -> st
      [] object.kind = "Key" -> key_arm(st, position, t, max_keys)
      [] object.kind = "Fire" -> fire_arm(st, position, t)
      [] object.kind = "Barrier" ->
            [st EXCEPT !.cells[position] = receive_damage(object, 1)]

\* the body of the loop for one cell
visit(st, position, t, max_keys) ==
    LET object == st.cells[position] IN
    CASE object = None -> st
      [] object.kind = "Key" -> key_arm(st, position, t, max_keys)
      [] object.kind = "Fire" -> fire_arm(st, position, t)
      [] object.kind = "Barrier" -> st

\* the pass from the k-th cell of the order on; a panic ends it (the state
\* after the visit is bound as a value before the pass goes on)
RECURSIVE update_from(_, _, _, _)
update_from(st, k, t, max_keys) ==
    IF k > Len(Order) \/ st.panicked THEN st
    ELSE CHOOSE result \in { update_from(next, k + 1, t, max_keys) :
                                next \in {visit(st, Order[k], t, max_keys)} } : TRUE

\* update() with the targets looked up on the board as it was when the pass
\* began (a double-buffered pass)
RECURSIVE update_on_snapshot_from(_, _, _, _, _)
update_on_snapshot_from(st, k, t, max_keys, snapshot) ==
    IF k > Len(Order) \/ st.panicked THEN st
    ELSE LET position == Order[k]
             object == st.cells[position]
             fires == /\ object # None
                      /\ object.kind = "Fire"
                      /\ is_over(object.cooldown, t)
             after_reset == [st EXCEPT !.cells[position].cooldown = reset(object.cooldown, t)]
             target == find_target(snapshot, position[1], toggle(object.owner), position)
             next == IF ~fires THEN visit(st, position, t, max_keys)
                     ELSE CASE target.tag = "Panic" -> [after_reset EXCEPT !.panicked = TRUE]
                            [] target.tag = "None" -> after_reset
                            [] target.tag = "Some" ->
                                [after_reset EXCEPT !.cells[target.position] =
                                    receive_damage(after_reset.cells[target.position],
                                                   object.damage)]
         IN update_on_snapshot_from(next, k + 1, t, max_keys, snapshot)

update_on_snapshot(c, p, t, max_keys) ==
    update_on_snapshot_from([cells |-> c, players |-> p, panicked |-> FALSE], 1, t, max_keys, c)

update(c, p, t, max_keys) ==
    update_from([cells |-> c, players |-> p, panicked |-> FALSE], 1, t, max_keys)

\* the pass state when the loop reaches the k-th cell of the order
before_visit(c, p, t, max_keys, k) ==
    IF k = 1 THEN [cells |-> c, players |-> p, panicked |-> FALSE]
    ELSE LET RECURSIVE upto(_, _)
             upto(st, j) == IF j >= k \/ st.panicked THEN st
                            ELSE upto(visit(st, Order[j], t, max_keys), j + 1)
         IN upto([cells |-> c, players |-> p, panicked |-> FALSE], 1)

(***************************************************************************)
(* GameBuilder: the boards and player data the runs start from.            *)
(***************************************************************************)
EmptyBoard == [position \in Positions |-> None]

\* GameBuilder::object presets of a game the Left player attacks in: two
\* Right barriers in the first row, a Right barrier in the last row
LeftAttackBoard ==
    [EmptyBoard EXCEPT
        ![<<0, n_columns>>] = Owned(BarrierObject(10), "Right"),
        ![<<0, n_total_columns - 1>>] = Owned(BarrierObject(11), "Right"),
        ![<<n_rows - 1, n_columns>>] = Owned(BarrierObject(11), "Right")]

\* the same board seen from the other side
RightAttackBoard ==
    [EmptyBoard EXCEPT
        ![<<0, n_columns - 1>>] = Owned(BarrierObject(10), "Left"),
        ![<<0, 0>>] = Owned(BarrierObject(11), "Left"),
        ![<<n_rows - 1, n_columns - 1>>] = Owned(BarrierObject(11), "Left")]

\* GameBuilder::object presets as main.rs create_game sets them: one key per
\* player in the far columns of the last row, health u32::MAX
KeyBoard(generation_left, generation_right) ==
    [EmptyBoard EXCEPT
        ![<<n_rows - 1, 0>>] = Owned(KeyObject(generation_left, U32Max, 0), "Left"),
        ![<<n_rows - 1, n_total_columns - 1>>] = Owned(KeyObject(generation_right, U32Max, 0), "Right")]

\* settings.max_keys, the preset board and the players' keys of the built
\* games: GameBuilder::players and GameBuilder::finish take any keys
Games ==
    { [max_keys |-> U32Max, cells |-> LeftAttackBoard, left |-> 40, right |-> 0],
      [max_keys |-> U32Max, cells |-> RightAttackBoard, left |-> 0, right |-> 40],
      [max_keys |-> 15, cells |-> KeyBoard(U32Max - 13, 10), left |-> 20, right |-> 10] }

NoCall == [op |-> "finish", result |-> "Ok"]

Init ==
    \E game \in Games :
        /\ settings = [max_keys |-> game.max_keys]
        /\ cells = game.cells
        /\ players = [player \in Player |->
                        player_data(IF player = "Left" THEN game.left ELSE game.right, 0)]
        /\ now = 0
        /\ status = "running"
        /\ last = NoCall

\* the clock advances between two calls into the engine
Tick ==
    /\ status = "running"
    /\ now < MaxTime
    /\ now' = now + 1
    /\ last' = [op |-> "tick", result |-> "Ok"]
    /\ UNCHANGED <<settings, cells, players, status>>

ClearCell ==
    /\ status = "running"
    /\ \E player \in Player, position \in AnyPosition :
        LET r == clear_cell(cells, player, position) IN
        /\ cells' = r.cells
        /\ last' = IF r.result = "Ok"
                    THEN [op |-> "clear_cell", player |-> player, result |-> r.result,
                          replaced |-> IF cells[position] = None THEN "None"
                                       ELSE cells[position].owner]
                    ELSE [op |-> "clear_cell", player |-> player, result |-> r.result]
    /\ UNCHANGED <<settings, players, now, status>>

PlaceObject ==
    /\ status = "running"
    /\ \E player \in Player, position \in AnyPosition, index \in 0 .. NPlacements :
        LET r == place_object(cells, players, now, player, position, index) IN
        /\ cells' = r.cells
        /\ players' = r.players
        /\ last' = IF r.result = "true"
                    THEN [op |-> "place_object", player |-> player, index |-> index,
                          result |-> r.result, in_bounds |-> InBounds(position),
                          position |-> position,
                          replaced |-> IF cells[position] = None THEN "None"
                                       ELSE cells[position].owner]
                    ELSE [op |-> "place_object", player |-> player, index |-> index,
                          result |-> r.result, in_bounds |-> InBounds(position)]
    /\ UNCHANGED <<settings, now, status>>

Update ==
    /\ status = "running"
    /\ LET r == update(cells, players, now, settings.max_keys) IN
        /\ cells' = r.cells
        /\ players' = r.players
        /\ status' = IF r.panicked THEN "panicked" ELSE "running"
        /\ last' = [op |-> "update", result |-> IF r.panicked THEN "Panic" ELSE "Ok"]
    /\ UNCHANGED <<settings, now>>

Next == Tick \/ ClearCell \/ PlaceObject \/ Update

Spec == Init /\ [][Next]_vars

\* GameBuilder::object presets of a game that starts with the attackers on
\* the board: two Left fires facing a Right key and a Right barrier in the
\* first row, a Left fire facing a Right fire in the last row
DuelBoard ==
    [EmptyBoard EXCEPT
        ![<<0, 0>>] = Owned(FireObject(10, 10, 0), "Left"),
        ![<<0, 1>>] = Owned(FireObject(10, 10, 0), "Left"),
        ![<<0, n_columns>>] = Owned(KeyObject(10, 10, 0), "Right"),
        ![<<0, n_total_columns - 1>>] = Owned(BarrierObject(11), "Right"),
        ![<<n_rows - 1, n_columns - 1>>] = Owned(FireObject(10, 10, 0), "Left"),
        ![<<n_rows - 1, n_columns>>] = Owned(FireObject(10, 10, 0), "Right")]

\* the duel board with a second Right fire behind the first one
CrossfireBoard ==
    [position \in Positions |->
        IF position = <<n_rows - 1, n_total_columns - 1>>
        THEN Owned(FireObject(10, 10, 0), "Right")
        ELSE DuelBoard[position]]

DuelGames ==
    { [max_keys |-> U32Max, cells |-> DuelBoard, left |-> 0, right |-> 0],
      [max_keys |-> U32Max, cells |-> CrossfireBoard, left |-> 20, right |-> 0] }

InitDuel ==
    \E game \in DuelGames :
        /\ settings = [max_keys |-> game.max_keys]
        /\ cells = game.cells
        /\ players = [player \in Player |->
                        player_data(IF player = "Left" THEN game.left ELSE game.right, 0)]
        /\ now = 0
        /\ status = "running"
        /\ last = NoCall

SpecDuel == InitDuel /\ [][Next]_vars

\* the longest time the clock of the cooldown game runs
MaxElapsed == 6

\* an object whose blueprint gives its cooldown another duration
WithDuration(object, duration) ==
    [object EXCEPT !.cooldown = CooldownNew(duration, object.cooldown.instant)]

\* GameBuilder::object presets of a game of keys with cooldowns of durations
\* 1, 2 and 3
CooldownBoard ==
    [EmptyBoard EXCEPT
        ![<<0, 0>>] = Owned(WithDuration(KeyObject(8, 10, 0), 3), "Left"),
        ![<<n_rows - 1, 0>>] = Owned(WithDuration(KeyObject(1, 10, 0), 1), "Left"),
        ![<<n_rows - 1, n_total_columns - 1>>] = Owned(WithDuration(KeyObject(2, 10, 0), 2), "Right")]

CooldownGames ==
    { [max_keys |-> U32Max, cells |-> CooldownBoard, left |-> 0, right |-> 0] }

InitCooldown ==
    \E game \in CooldownGames :
        /\ settings = [max_keys |-> game.max_keys]
        /\ cells = game.cells
        /\ players = [player \in Player |->
                        player_data(IF player = "Left" THEN game.left ELSE game.right, 0)]
        /\ now = 0
        /\ status = "running"
        /\ last = NoCall

\* time passes between two calls of update(), up to MaxElapsed
Elapse ==
    /\ status = "running"
    /\ now < MaxElapsed
    /\ now' = now + 1
    /\ last' = [op |-> "tick", result |-> "Ok"]
    /\ UNCHANGED <<settings, cells, players, status>>

NextCooldown == Elapse \/ Update

SpecCooldown == InitCooldown /\ [][NextCooldown]_vars

(***************************************************************************)
(* The cooldown game on a clock that never stops: time is kept relative to *)
(* `now`, so a unit of time passing moves every cooldown's instant back by *)
(* one.  An elapsed time above MaxAge is kept as MaxAge; no duration is    *)
(* longer, so instant.elapsed() >= duration is not affected.               *)
(***************************************************************************)
MaxAge == 3

elapse(cooldown, t) ==
    [cooldown EXCEPT !.instant = IF @ - 1 < t - MaxAge THEN t - MaxAge ELSE @ - 1]

Pass ==
    /\ status = "running"
    /\ cells' = [position \in Positions |->
                    IF cells[position] # None /\ cells[position].kind \in {"Key", "Fire"}
                    THEN [cells[position] EXCEPT !.cooldown = elapse(@, now)]
                    ELSE cells[position]]
    /\ players' = [player \in Player |->
                    [players[player] EXCEPT !.placements =
                        [i \in DOMAIN @ |-> [cooldown |-> elapse(@[i].cooldown, now)]]]]
    /\ last' = [op |-> "tick", result |-> "Ok"]
    /\ UNCHANGED <<settings, now, status>>

NextCycle == Pass \/ Update

\* time keeps advancing and the event loop keeps calling update()
SpecCycle == InitCooldown /\ [][NextCycle]_vars /\ WF_vars(Pass) /\ WF_vars(Update)

\* GameBuilder::object presets of a game of two sieges: in the first row a
\* Left fire against a Right barrier and a Right key, in the last row a
\* Right fire against a Left key and a Left barrier
SiegeBoard ==
    [EmptyBoard EXCEPT
        ![<<0, 0>>] = Owned(WithDuration(FireObject(4, 10, 0), 2), "Left"),
        ![<<0, n_columns>>] = Owned(BarrierObject(10), "Right"),
        ![<<0, n_total_columns - 1>>] = Owned(WithDuration(KeyObject(1, 5, 0), 1), "Right"),
        ![<<n_rows - 1, 0>>] = Owned(BarrierObject(7), "Left"),
        ![<<n_rows - 1, n_columns - 1>>] = Owned(WithDuration(KeyObject(2, 3, 0), 2), "Left"),
        ![<<n_rows - 1, n_total_columns - 1>>] = Owned(WithDuration(FireObject(3, 10, 0), 3), "Right")]

\* GameBuilder::object takes any position for any owner: the first siege
\* with a second Left fire preset in the far column of Right's half
OutpostBoard ==
    [EmptyBoard EXCEPT
        ![<<0, 0>>] = Owned(WithDuration(FireObject(4, 10, 0), 2), "Left"),
        ![<<0, n_columns>>] = Owned(BarrierObject(10), "Right"),
        ![<<0, n_total_columns - 1>>] = Owned(WithDuration(FireObject(4, 10, 0), 3), "Left"),
        ![<<n_rows - 1, n_total_columns - 1>>] = Owned(WithDuration(KeyObject(2, 3, 0), 2), "Right")]

SiegeGames ==
    { [max_keys |-> U32Max, cells |-> SiegeBoard, left |-> 0, right |-> 0],
      [max_keys |-> U32Max, cells |-> OutpostBoard, left |-> 0, right |-> 0] }

InitSiege ==
    \E game \in SiegeGames :
        /\ settings = [max_keys |-> game.max_keys]
        /\ cells = game.cells
        /\ players = [player \in Player |->
                        player_data(IF player = "Left" THEN game.left ELSE game.right, 0)]
        /\ now = 0
        /\ status = "running"
        /\ last = NoCall

\* time keeps advancing, update() is called again and again, and no player
\* places or clears anything
SpecSiege == InitSiege /\ [][NextCycle]_vars /\ WF_vars(Pass) /\ WF_vars(Update)

(***************************************************************************)
(* Two copies of one game that receive the same calls at the same clock    *)
(* values: `cells`, `players` and `status` hold one value per copy.        *)
(***************************************************************************)
Copies == {1, 2}

TwinGames ==
    DuelGames \cup {[max_keys |-> U32Max, cells |-> LeftAttackBoard, left |-> 40, right |-> 0]}

InitTwin ==
    \E game \in TwinGames :
        /\ settings = [max_keys |-> game.max_keys]
        /\ cells = [copy \in Copies |-> game.cells]
        /\ players = [copy \in Copies |->
                        [player \in Player |->
                            player_data(IF player = "Left" THEN game.left ELSE game.right, 0)]]
        /\ now = 0
        /\ status = [copy \in Copies |-> "running"]
        /\ last = [op |-> "finish", result |-> [copy \in Copies |-> "Ok"]]

TwinRunning == \A copy \in Copies : status[copy] = "running"

TwinTick ==
    /\ TwinRunning
    /\ now < MaxTime
    /\ now' = now + 1
    /\ last' = [op |-> "tick", result |-> [copy \in Copies |-> "Ok"]]
    /\ UNCHANGED <<settings, cells, players, status>>

TwinClearCell ==
    /\ TwinRunning
    /\ \E player \in Player, position \in AnyPosition :
        LET r == [copy \in Copies |-> clear_cell(cells[copy], player, position)] IN
        /\ cells' = [copy \in Copies |-> r[copy].cells]
        /\ last' = [op |-> "clear_cell", result |-> [copy \in Copies |-> r[copy].result]]
    /\ UNCHANGED <<settings, players, now, status>>

TwinPlaceObject ==
    /\ TwinRunning
    /\ \E player \in Player, position \in AnyPosition, index \in 0 .. NPlacements :
        LET r == [copy \in Copies |->
                    place_object(cells[copy], players[copy], now, player, position, index)] IN
        /\ cells' = [copy \in Copies |-> r[copy].cells]
        /\ players' = [copy \in Copies |-> r[copy].players]
        /\ last' = [op |-> "place_object", result |-> [copy \in Copies |-> r[copy].result]]
    /\ UNCHANGED <<settings, now, status>>

\* the second copy reading a clock that has moved on by one
TwinUpdate_at_two_clock_values ==
    /\ TwinRunning
    /\ LET r == [copy \in Copies |->
                    update(cells[copy], players[copy], now + copy - 1, settings.max_keys)] IN
        /\ cells' = [copy \in Copies |-> r[copy].cells]
        /\ players' = [copy \in Copies |-> r[copy].players]
        /\ status' = [copy \in Copies |-> IF r[copy].panicked THEN "panicked" ELSE "running"]
        /\ last' = [op |-> "update",
                    result |-> [copy \in Copies |-> IF r[copy].panicked THEN "Panic" ELSE "Ok"]]
    /\ UNCHANGED <<settings, now>>

TwinUpdate ==
    /\ TwinRunning
    /\ LET r == [copy \in Copies |->
                    update(cells[copy], players[copy], now, settings.max_keys)] IN
        /\ cells' = [copy \in Copies |-> r[copy].cells]
        /\ players' = [copy \in Copies |-> r[copy].players]
        /\ status' = [copy \in Copies |-> IF r[copy].panicked THEN "panicked" ELSE "running"]
        /\ last' = [op |-> "update",
                    result |-> [copy \in Copies |-> IF r[copy].panicked THEN "Panic" ELSE "Ok"]]
    /\ UNCHANGED <<settings, now>>

NextTwin == TwinTick \/ TwinClearCell \/ TwinPlaceObject \/ TwinUpdate

SpecTwin == InitTwin /\ [][NextTwin]_vars

(***************************************************************************)
(* GameBuilder (game.rs): new, object, players, finish.  While a game is   *)
(* being built `settings` holds the GameSettings handed to new, `cells`    *)
(* the builder's board, `players` its Option<Players<PlayerData>> and      *)
(* `status` how far the construction went.                                 *)
(***************************************************************************)
\* usize, at a width small enough to enumerate
UsizeWidth == 3
UsizeMax == 2 ^ UsizeWidth - 1

\* the two ways a build treats an overflowing multiplication: it panics
\* (overflow checks on) or wraps
Builds == {"checked", "wrapping"}

\* the builder before new() made a board, and players: None
NoBoard == << >>
NoPlayers == [tag |-> "None"]

\* GameBuilder::new
GameBuilder_new(s, build) ==
    IF s.n_columns = 0 THEN [result |-> "Err"]
    ELSE IF s.n_rows = 0 THEN [result |-> "Err"]
    ELSE IF s.base_span.start >= s.base_span.end THEN [result |-> "Err"]
    ELSE IF s.base_span.end > s.n_rows THEN [result |-> "Err"]
    ELSE IF s.n_columns * 2 > UsizeMax /\ build = "checked" THEN [result |-> "Panic"]
    ELSE LET total == (s.n_columns * 2) % (2 ^ UsizeWidth)
         IN [result |-> "Ok",
             cells |-> [position \in (0 .. (s.n_rows - 1)) \X (0 .. (total - 1)) |-> None]]

\* GameBuilder::object
GameBuilder_object(c, index, owned_object) ==
    IF index \notin DOMAIN c
    THEN [result |-> "Err"]
    ELSE [result |-> "Ok", cells |-> [c EXCEPT ![index] = owned_object]]

\* GameBuilder::finish
GameBuilder_finish(c, p) ==
    IF p = NoPlayers THEN [result |-> "Err"] ELSE [result |-> "Ok", cells |-> c, players |-> p]

\* the settings handed to new(): dimensions zero, small and half of the
\* usize range, base spans in and out of the rows
SettingsInputs ==
    [n_columns : {0, 1, n_columns, 2 ^ (UsizeWidth - 1)},
     n_rows : 0 .. n_rows,
     base_span : [start : 0 .. n_rows, end : 0 .. (n_rows + 1)],
     max_keys : {U32Max}]

\* the indices and the object handed to object()
PresetIndices == {<<0, 0>>, <<1, 1>>, <<0, 2>>}
PresetObject == Owned(BarrierObject(11), "Left")

InitBuilder ==
    /\ settings \in SettingsInputs
    /\ cells = NoBoard
    /\ players = NoPlayers
    /\ now = 0
    /\ status = "settings"
    /\ last = [op |-> "settings", result |-> "Ok"]

BuilderNew ==
    /\ status = "settings"
    /\ \E build \in Builds :
        LET r == GameBuilder_new(settings, build) IN
        /\ cells' = IF r.result = "Ok" THEN r.cells ELSE cells
        /\ status' = CASE r.result = "Ok" -> "building"
                        [] r.result = "Err" -> "failed"
                        [] r.result = "Panic" -> "panicked"
        /\ last' = [op |-> "new", result |-> r.result]
    /\ UNCHANGED <<settings, players, now>>

BuilderObject ==
    /\ status = "building"
    /\ \E index \in PresetIndices :
        LET r == GameBuilder_object(cells, index, PresetObject) IN
        /\ cells' = IF r.result = "Ok" THEN r.cells ELSE cells
        /\ status' = IF r.result = "Ok" THEN "building" ELSE "failed"
        /\ last' = [op |-> "object", result |-> r.result, index |-> index]
    /\ UNCHANGED <<settings, players, now>>

BuilderPlayers ==
    /\ status = "building"
    /\ players' = [player \in Player |-> player_data(0, now)]
    /\ last' = [op |-> "players", result |-> "Ok"]
    /\ UNCHANGED <<settings, cells, now, status>>

BuilderFinish ==
    /\ status = "building"
    /\ LET r == GameBuilder_finish(cells, players) IN
        /\ status' = IF r.result = "Ok" THEN "running" ELSE "failed"
        /\ last' = [op |-> "finish", result |-> r.result]
    /\ UNCHANGED <<settings, cells, players, now>>

NextBuilder == BuilderNew \/ BuilderObject \/ BuilderPlayers \/ BuilderFinish

SpecBuilder == InitBuilder /\ [][NextBuilder]_vars

(***************************************************************************)
(* GameController (game_controller.rs): new, button_event, move_selection, *)
(* update_event.  In the controller's specification `settings` also holds  *)
(* the controller's selected_cells, beside the game's n_rows, n_columns    *)
(* and max_keys; `status` is "settings" until GameController::new ran.     *)
(***************************************************************************)
\* isize::MAX at the width of usize
IsizeMax == 2 ^ (UsizeWidth - 1) - 1

\* isize::try_from(value).is_ok()
fits_isize(value) == value <= IsizeMax

\* Array2::get(position).is_some() on the game's board
cells_get(c, position) == position \in DOMAIN c

\* Game::clear_cell and Game::place_object on the board of the built game
Game_clear_cell(c, player, position) ==
    IF ~cells_get(c, position)
    THEN [result |-> "Err", cells |-> c]
    ELSE clear_cell(c, player, position)

Game_place_object(c, p, t, player, position, index) ==
    IF ~cells_get(c, position)
    THEN [result |-> "Err", cells |-> c, players |-> p]
    ELSE place_object(c, p, t, player, position, index)

\* Game::update: a board without cells has nothing to iterate over
Game_update(c, p, t, max_keys) ==
    IF DOMAIN c = {}
    THEN [cells |-> c, players |-> p, panicked |-> FALSE]
    ELSE update(c, p, t, max_keys)

\* the offset of a player's half
offset(player, columns) == IF player = "Left" THEN 0 ELSE columns

\* the check of one player's selected cell in GameController::new:
\* row >= n_rows || column - offset >= n_columns, the subtraction in usize
invalid_selected_cell(selected, player, rows, columns, build) ==
    LET row == selected[player][1]
        column == selected[player][2]
    IN IF row >= rows THEN "Err"
       ELSE IF column < offset(player, columns)
            THEN IF build = "checked" THEN "Panic"
                 ELSE IF column - offset(player, columns) + 2 ^ UsizeWidth >= columns
                      THEN "Err" ELSE "Ok"
            ELSE IF column - offset(player, columns) >= columns THEN "Err" ELSE "Ok"

\* GameController::new: Left is checked first, then Right
GameController_new(selected, rows, columns, build) ==
    LET left == invalid_selected_cell(selected, "Left", rows, columns, build)
    IN IF left # "Ok" THEN left
       ELSE invalid_selected_cell(selected, "Right", rows, columns, build)

\* GameController::move_selection
move_selection(selected, player, delta, rows, columns) ==
    IF ~fits_isize(rows) \/ ~fits_isize(columns)
    THEN [result |-> "Err", selected |-> selected]
    ELSE IF ~fits_isize(selected[player][1]) \/ ~fits_isize(selected[player][2])
    THEN [result |-> "Err", selected |-> selected]
    ELSE LET row == selected[player][1]
             relative_column == selected[player][2] - offset(player, columns)
         IN [result |-> "Ok",
             selected |-> [selected EXCEPT ![player] =
                <<(row + delta[1]) % rows,
                  ((relative_column + delta[2]) % columns) + offset(player, columns)>>]]

\* the key binding of main.rs: every button is bound to one function of one
\* player, or to none
Functions == {"up", "down", "left", "right", "remove", "place0", "place1", "place2"}
Buttons == (Player \X Functions) \cup {<<"None", "other">>}
bound(button, player, function) == button = <<player, function>>

\* find(&key_binding.place, &args.button)
find_place(button, player) ==
    CASE bound(button, player, "place0") -> [tag |-> "Some", index |-> 0]
      [] bound(button, player, "place1") -> [tag |-> "Some", index |-> 1]
      [] bound(button, player, "place2") -> [tag |-> "Some", index |-> 2]
      [] OTHER -> [tag |-> "None"]

\* the delta of a button, None for a button that moves nothing
button_delta(button, player) ==
    CASE bound(button, player, "up") -> [tag |-> "Some", delta |-> <<-1, 0>>]
      [] bound(button, player, "down") -> [tag |-> "Some", delta |-> <<1, 0>>]
      [] bound(button, player, "left") -> [tag |-> "Some", delta |-> <<0, -1>>]
      [] bound(button, player, "right") -> [tag |-> "Some", delta |-> <<0, 1>>]
      [] OTHER -> [tag |-> "None"]

\* the body of the loop of button_event for one player; st is
\* {cells, players, selected, result, call}, `call` the result of the game
\* call made, if any
button_event_for(st, player, button, t, rows, columns) ==
    IF st.result # "Ok" THEN st
    ELSE
    LET selected_cell == st.selected[player]
        cleared == IF bound(button, player, "remove")
                   THEN LET r == Game_clear_cell(st.cells, player, selected_cell)
                        IN [st EXCEPT !.cells = r.cells, !.result = r.result,
                                      !.call = "clear_cell"]
                   ELSE st
        place == find_place(button, player)
        placed == IF cleared.result = "Ok" /\ place.tag = "Some"
                  THEN LET r == Game_place_object(cleared.cells, cleared.players, t, player,
                                                  selected_cell, place.index)
                       IN [cleared EXCEPT !.cells = r.cells, !.players = r.players,
                                          !.result = IF r.result = "Err" THEN "Err" ELSE "Ok",
                                          !.call = "place_object"]
                  ELSE cleared
        delta == button_delta(button, player)
    IN IF placed.result = "Ok" /\ delta.tag = "Some"
       THEN LET r == move_selection(placed.selected, player, delta.delta, rows, columns)
            IN [placed EXCEPT !.selected = r.selected, !.result = r.result]
       ELSE placed

\* GameController::button_event for a released button
button_event(c, p, selected, button, t, rows, columns) ==
    button_event_for(
        button_event_for([cells |-> c, players |-> p, selected |-> selected,
                          result |-> "Ok", call |-> "None"],
                         "Left", button, t, rows, columns),
        "Right", button, t, rows, columns)

\* the games handed to the controller: the board of n_rows x 2 * n_columns
\* cells with keys for one placement, and the game GameBuilder::new makes of
\* n_columns = 2 ^ (UsizeWidth - 1) when the multiplication wraps
ControllerGames ==
    { [n_columns |-> columns, n_rows |-> n_rows, max_keys |-> U32Max,
       base_span |-> [start |-> 0, end |-> 1]] :
        columns \in {n_columns, 2 ^ (UsizeWidth - 1)} }

\* the selected_cells of the controller's settings, valid and not
SelectedInputs ==
    [Left : {<<0, 0>>, <<n_rows, 0>>, <<0, n_columns>>},
     Right : {<<n_rows - 1, n_total_columns - 1>>, <<0, 0>>, <<0, 2 ^ (UsizeWidth - 1)>>}]

InitController ==
    \E game \in ControllerGames, selected \in SelectedInputs :
        /\ settings = [n_columns |-> game.n_columns, n_rows |-> game.n_rows,
                       max_keys |-> game.max_keys, selected_cells |-> selected]
        /\ cells = GameBuilder_new(game, "wrapping").cells
        /\ players = [player \in Player |->
                        player_data(IF player = "Left" THEN 20 ELSE 0, 0)]
        /\ now = 0
        /\ status = "settings"
        /\ last = NoCall

\* the builds that made the game: a build with overflow checks makes no game
\* whose 2 * n_columns exceeds usize
ControllerBuilds == {build \in Builds : build = "wrapping" \/ settings.n_columns * 2 <= UsizeMax}

ControllerNew ==
    /\ status = "settings"
    /\ \E build \in ControllerBuilds :
        LET r == GameController_new(settings.selected_cells, settings.n_rows,
                                    settings.n_columns, build) IN
        /\ status' = CASE r = "Ok" -> "running"
                        [] r = "Err" -> "failed"
                        [] r = "Panic" -> "panicked"
        /\ last' = [op |-> "new", result |-> r]
    /\ UNCHANGED <<settings, cells, players, now>>

ButtonEvent ==
    /\ status = "running"
    /\ \E button \in Buttons :
        LET r == button_event(cells, players, settings.selected_cells, button, now,
                              settings.n_rows, settings.n_columns) IN
        /\ cells' = r.cells
        /\ players' = r.players
        /\ settings' = [settings EXCEPT !.selected_cells = r.selected]
        /\ status' = IF r.result = "Ok" THEN "running" ELSE "failed"
        /\ last' = [op |-> "button_event", result |-> r.result, button |-> button,
                    call |-> r.call]
    /\ UNCHANGED now

UpdateEvent ==
    /\ status = "running"
    /\ LET r == Game_update(cells, players, now, settings.max_keys) IN
        /\ cells' = r.cells
        /\ players' = r.players
        /\ status' = IF r.panicked THEN "panicked" ELSE "running"
        /\ last' = [op |-> "update", result |-> IF r.panicked THEN "Panic" ELSE "Ok"]
    /\ UNCHANGED <<settings, now>>

NextController == ControllerNew \/ ButtonEvent \/ UpdateEvent

SpecController == InitController /\ [][NextController]_vars

(***************************************************************************)
(* Properties of Game::place_object.                                       *)
(***************************************************************************)
\* the cost and the kind of the catalog's entries
CostOf(index) == get_placement(index, 0).cost
KindOf(index) == get_placement(index, 0).object.kind

\* the placement cooldown of player.rs that belongs to a call
PlacementCooldown(player, index) == players[player].placements[index].cooldown

\* C1: a place_object call that does not return true (an error or false)
\* leaves every cell, both players' keys and every placement cooldown as
\* they were before the call.
C1_FailedPlaceObjectChangesNothing ==
    [][(last'.op = "place_object" /\ last'.result # "true")
        => (cells' = cells /\ players' = players)]_vars

\* C1 witness: the last call was refused because the player's keys are
\* below the cost of the placement, on a board that holds objects.
C1_Witness ==
    /\ last.op = "place_object"
    /\ last.result = "false"
    /\ last.index < NPlacements
    /\ players[last.player].keys < CostOf(last.index)
    /\ players[last.player].keys > 0
    /\ \E position \in Positions : cells[position] # None

\* C2: right after a successful place_object, a further place_object by the
\* same player with the same index at the same clock value (the placement's
\* cooldown has not elapsed) is not successful.
C2_SecondPlacementRefused ==
    [][(/\ last.op = "place_object" /\ last.result = "true"
        /\ last'.op = "place_object"
        /\ last'.player = last.player /\ last'.index = last.index
        /\ now' = now /\ CooldownDuration > 0)
        => last'.result # "true"]_vars

\* C3: a place_object call that returns true takes exactly the cost from the
\* placing player's keys, leaves the other player's data alone, puts the
\* freshly generated object (full health, cooldown started now) owned by the
\* placing player into the target cell whatever was there, and changes no
\* other cell.
C3_SuccessfulPlaceObject ==
    [][(last'.op = "place_object" /\ last'.result = "true")
        => LET player == last'.player
               position == last'.position
               object == cells'[position]
           IN /\ InBounds(position)
              /\ players[player].keys >= CostOf(last'.index)
              /\ players'[player].keys = players[player].keys - CostOf(last'.index)
              /\ players'[player].placements = players[player].placements
              /\ players'[toggle(player)] = players[toggle(player)]
              /\ object # None
              /\ object.owner = player
              /\ object.kind = KindOf(last'.index)
              /\ object.health = object.max_health
              /\ (object.kind # "Barrier" => object.cooldown.instant = now)
              /\ \A other \in Positions \ {position} : cells'[other] = cells[other]]_vars

\* C3 witness: a placement by Left has replaced an object of Right, and the
\* cell now holds Left's object.
C3_Witness ==
    /\ last.op = "place_object"
    /\ last.result = "true"
    /\ last.player = "Left"
    /\ last.replaced = "Right"
    /\ cells[last.position].owner = "Left"

\* C4: when place_object is refused for keys < cost while the placement's
\* cooldown is over, the refusal changes no cooldown, and once an update()
\* at the same clock value has brought the keys to cost or more, the same
\* call succeeds.
C4_RefusalKeepsCooldown ==
    \A player \in Player, position \in Positions, index \in 0 .. (NPlacements - 1) :
        LET first == place_object(cells, players, now, player, position, index)
            refilled == update(first.cells, first.players, now, settings.max_keys)
            second == place_object(refilled.cells, refilled.players, now, player, position, index)
        IN (/\ players[player].keys < CostOf(index)
            /\ is_over(PlacementCooldown(player, index), now))
           => /\ first.result = "false"
              /\ first.players[player].placements = players[player].placements
              /\ (~refilled.panicked /\ refilled.players[player].keys >= CostOf(index))
                    => second.result = "true"

\* C4 witness: a placement has just been refused for keys < cost with its
\* cooldown over, and an update() at this clock value brings the keys to
\* exactly the cost.
C4_Witness ==
    /\ last.op = "place_object"
    /\ last.result = "false"
    /\ last.index < NPlacements
    /\ players[last.player].keys < CostOf(last.index)
    /\ is_over(PlacementCooldown(last.player, last.index), now)
    /\ LET refilled == update(cells, players, now, settings.max_keys)
       IN ~refilled.panicked /\ refilled.players[last.player].keys = CostOf(last.index)

\* C5: place_object answers an out-of-bounds position with an error whatever
\* the index and the keys, and answers an in-bounds position with false
\* whenever the index is not in the catalog, the placement's cooldown is not
\* over or the keys are below the cost.
C5_HardBeforeSoftFailure ==
    [][last'.op = "place_object"
        => /\ ~last'.in_bounds => last'.result = "Err"
           /\ (/\ last'.in_bounds
               /\ \/ last'.index >= NPlacements
                  \/ /\ last'.index < NPlacements
                     /\ \/ ~is_over(PlacementCooldown(last'.player, last'.index), now)
                        \/ players[last'.player].keys < CostOf(last'.index))
              => last'.result = "false"]_vars

(***************************************************************************)
(* Properties of Game::update, stated for each cell the pass visits.       *)
(***************************************************************************)
\* the pass state when update() reaches the k-th cell, and after that cell
Before(k) == before_visit(cells, players, now, settings.max_keys, k)
After(k) == visit(Before(k), Order[k], now, settings.max_keys)

\* the pass reaches the k-th cell and finds there a `kind` object
Visits(k, kind) ==
    /\ ~Before(k).panicked
    /\ Before(k).cells[Order[k]] # None
    /\ Before(k).cells[Order[k]].kind = kind

\* the columns of a player's half, and the occupied ones of a row
HalfColumns(player) ==
    IF player = "Left" THEN 0 .. (n_columns - 1) ELSE n_columns .. (n_total_columns - 1)
OccupiedColumns(c, row, player) == {column \in HalfColumns(player) : c[<<row, column>>] # None}

\* of a set of columns in a player's half, the one closest to the division line
Nearest(player, columns) ==
    CHOOSE column \in columns : \A other \in columns :
        IF player = "Left" THEN other <= column ELSE other >= column

\* an object after `damage`: removed unless its health is larger
Damaged(object, damage) ==
    IF object.health > damage THEN [object EXCEPT !.health = object.health - damage] ELSE None

\* C6: update() completes its pass and returns success on every board that
\* the builder, place_object and clear_cell can produce.
C6_UpdateCompletes == last.op = "update" => last.result = "Ok"

\* C7: a Fire whose cooldown is over hits the occupied cell of its row in the
\* opposing half that is closest to the division line, and nothing else: all
\* other cells keep their object and health (the Fire itself only has its
\* cooldown reset).
C7_FireHitsNearestOnly ==
    [][last'.op = "update"
        => \A k \in 1 .. Len(Order) :
            (Visits(k, "Fire") /\ is_over(Before(k).cells[Order[k]].cooldown, now))
            => LET c == Before(k).cells
                   position == Order[k]
                   fire == [c[position] EXCEPT !.cooldown.instant = now]
                   enemy == toggle(fire.owner)
                   occupied == OccupiedColumns(c, position[1], enemy)
               IN occupied # {}
                  => LET target == <<position[1], Nearest(enemy, occupied)>>
                     IN /\ ~After(k).panicked
                        /\ After(k).cells[target] =
                             Damaged(IF target = position THEN fire ELSE c[target], fire.damage)
                        /\ target # position => After(k).cells[position] = fire
                        /\ \A other \in Positions \ {target, position} :
                              After(k).cells[other] = c[other]
                        /\ After(k).players = Before(k).players]_vars

\* C8: damage on an occupied cell leaves the object with health - damage when
\* health > damage and removes it otherwise (health <= damage); on an empty
\* cell it does nothing.  Checked on every cell of every reachable board, and
\* on the cell that every firing Fire of an update() of that board hits.
C8_DamageApplication ==
    /\ \A position \in Positions, damage \in {0, 1, 9, 10, 11, U32Max} :
            receive_damage(cells[position], damage) =
                IF cells[position] = None THEN None
                ELSE Damaged(cells[position], damage)
    /\ \A k \in 1 .. Len(Order) :
        (Visits(k, "Fire") /\ is_over(Before(k).cells[Order[k]].cooldown, now))
        => LET fire == Before(k).cells[Order[k]]
               target == find_target(Before(k).cells, Order[k][1],
                                     toggle(fire.owner), Order[k])
           IN target.tag = "Some"
              => LET hit == Before(k).cells[target.position]
                 IN /\ hit # None
                    /\ hit.health > fire.damage
                        => /\ After(k).cells[target.position] # None
                           /\ After(k).cells[target.position].health =
                                hit.health - fire.damage
                           /\ After(k).cells[target.position].health > 0
                    /\ hit.health <= fire.damage
                        => After(k).cells[target.position] = None

\* C8 witness: after an update() a barrier of health 11 that took damage 10
\* is still there with health 1.
C8_Witness ==
    /\ last.op = "update"
    /\ last.result = "Ok"
    /\ \E position \in Positions :
        /\ cells[position] # None
        /\ cells[position].kind = "Barrier"
        /\ cells[position].max_health = 11
        /\ cells[position].health = 1

\* C9: when update() visits a Key whose cooldown is over, its owner's keys
\* become min(keys + generation, max_keys), computed without wrapping, and
\* the other player's keys stay; when the cooldown is not over the visit
\* changes no player's keys.
C9_KeyGenerationClamped ==
    [][last'.op = "update"
        => \A k \in 1 .. Len(Order) :
            Visits(k, "Key")
            => LET key == Before(k).cells[Order[k]]
                   owner == key.owner
                   keys == Before(k).players[owner].keys
               IN IF is_over(key.cooldown, now)
                  THEN /\ After(k).players[owner].keys =
                            Min(keys + key.generation, settings.max_keys)
                       /\ After(k).players[owner].keys <= U32Max
                       /\ After(k).players[toggle(owner)] = Before(k).players[toggle(owner)]
                  ELSE After(k).players = Before(k).players]_vars

\* C9 witness: with max_keys 15, the Right player who had 10 keys and owns
\* a Key of generation 10 has 15 keys after the update() in which it fired.
C9_Witness ==
    /\ last.op = "update"
    /\ settings.max_keys = 15
    /\ players["Right"].keys = 15
    /\ now >= CooldownDuration
    /\ \E position \in Positions :
        /\ cells[position] # None
        /\ cells[position].kind = "Key"
        /\ cells[position].owner = "Right"
        /\ cells[position].generation = 10
        /\ cells[position].cooldown.instant = now

\* C10: in every state of a built game each player's keys are at most
\* max_keys.
C10_KeysAtMostMaxKeys ==
    \A player \in Player : players[player].keys <= settings.max_keys

(***************************************************************************)
(* Health, clear_cell and the order of the update pass.                    *)
(***************************************************************************)
\* C11: every object in a cell has 0 < health <= max_health (the catalog and
\* the presets create objects with 0 < health <= max_health).
C11_HealthInRange ==
    \A position \in Positions :
        cells[position] # None
        => /\ 0 < cells[position].health
           /\ cells[position].health <= cells[position].max_health

\* C11 witness: after an update() in which a Fire has fired, an object that
\* took damage is still in its cell, below its max_health.
C11_Witness ==
    /\ last.op = "update"
    /\ \E position \in Positions :
        /\ cells[position] # None
        /\ cells[position].health < cells[position].max_health
    /\ \E position \in Positions :
        /\ cells[position] # None
        /\ cells[position].kind = "Fire"
        /\ cells[position].cooldown.instant = now

\* C12: clear_cell on a position in bounds returns success and leaves the
\* cell empty, occupied or not, so that a second clear_cell changes nothing
\* more; out of bounds it returns an error; in both cases no other cell, no
\* player's data and no cooldown changes.
C12_ClearCell ==
    [][last'.op = "clear_cell"
        => /\ players' = players
           /\ now' = now
           /\ \/ /\ last'.result = "Ok"
                 /\ \E position \in Positions :
                      /\ cells'[position] = None
                      /\ \A other \in Positions \ {position} : cells'[other] = cells[other]
              \/ /\ last'.result = "Err"
                 /\ cells' = cells
           /\ \A player \in Player, position \in AnyPosition :
                LET once == clear_cell(cells, player, position)
                    twice == clear_cell(once.cells, toggle(player), position)
                IN IF InBounds(position)
                   THEN /\ once.result = "Ok"
                        /\ once.cells[position] = None
                        /\ \A other \in Positions \ {position} : once.cells[other] = cells[other]
                        /\ twice.result = "Ok"
                        /\ twice.cells = once.cells
                   ELSE /\ once.result = "Err"
                        /\ once.cells = cells]_vars

\* C12 witness: a clear_cell on a cell that was already empty has returned
\* success, on a board that still holds objects.
C12_Witness ==
    /\ last.op = "clear_cell"
    /\ last.result = "Ok"
    /\ last.replaced = "None"
    /\ \E position \in Positions : cells[position] # None

\* the k-th cell holds a Fire whose cooldown is over when the pass reaches it
Fires(k) ==
    /\ Visits(k, "Fire")
    /\ now - Before(k).cells[Order[k]].cooldown.instant
            >= Before(k).cells[Order[k]].cooldown.duration

\* the Fire the pass finds in the j-th cell fires and destroys the object
\* in the cell `victim`
Kills(j, victim) ==
    /\ Fires(j)
    /\ victim # Order[j]
    /\ victim[1] = Order[j][1]
    /\ LET fire == Before(j).cells[Order[j]]
           occupied == OccupiedColumns(Before(j).cells, victim[1], toggle(fire.owner))
       IN /\ victim[2] \in occupied
          /\ victim[2] = Nearest(toggle(fire.owner), occupied)
          /\ Before(j).cells[victim].health <= fire.damage

\* C13: an object destroyed by a Fire before the pass of update() reaches its
\* cell does not act in that pass: the visit of its cell changes no keys, no
\* cooldown and no cell, and the cell is empty after the pass.
C13_RemovedObjectDoesNotAct ==
    [][last'.op = "update"
        => \A k \in 1 .. Len(Order) :
            (cells[Order[k]] # None /\ \E j \in 1 .. (k - 1) : Kills(j, Order[k]))
            => /\ After(k).cells = Before(k).cells
               /\ After(k).players = Before(k).players
               /\ cells'[Order[k]] = None]_vars

\* C13 witness: both Left fires of the first row have just fired, the Right
\* barrier behind took one hit only, so the other hit destroyed the Right
\* key in front of it, whose cooldown was over; the Right player has no keys.
C13_Witness ==
    /\ last.op = "update"
    /\ now >= CooldownDuration
    /\ cells[<<0, 0>>] # None /\ cells[<<0, 0>>].kind = "Fire"
    /\ cells[<<0, 0>>].cooldown.instant = now
    /\ cells[<<0, 1>>] # None /\ cells[<<0, 1>>].kind = "Fire"
    /\ cells[<<0, 1>>].cooldown.instant = now
    /\ cells[<<0, n_columns>>] = None
    /\ cells[<<0, n_total_columns - 1>>] # None
    /\ cells[<<0, n_total_columns - 1>>].health = 1
    /\ players["Right"].keys = 0

Durations == 1 .. 3
Instants == 0 .. MaxElapsed

\* C15: a cooldown of duration D > 0 is not ready right after creation and
\* right after a reset; in update() a Key whose cooldown has elapsed >= D
\* runs its effect and is reset to now, one with less elapsed changes
\* nothing; two consecutive firings of one cooldown are at least D apart.
C15_CooldownReadiness ==
    [][/\ \A duration \in Durations, t \in Instants :
            /\ ~is_over(CooldownNew(duration, t), t)
            /\ \A instant \in 0 .. t :
                ~is_over(reset(CooldownNew(duration, instant), t), t)
       /\ last'.op = "update"
            => \A k \in 1 .. Len(Order) :
                Visits(k, "Key")
                => LET position == Order[k]
                       object == Before(k).cells[position]
                   IN IF now - object.cooldown.instant >= object.cooldown.duration
                      THEN /\ After(k).cells[position].cooldown.instant = now
                           /\ After(k).players[object.owner].keys =
                                Min(saturating_add(Before(k).players[object.owner].keys,
                                                   object.generation),
                                    settings.max_keys)
                           /\ cells'[position].cooldown.instant = now
                      ELSE /\ After(k) = Before(k)
                           /\ cells'[position] = cells[position]
       /\ \A position \in Positions :
            (/\ cells[position] # None
             /\ cells'[position] # None
             /\ cells'[position].kind = "Key"
             /\ cells'[position].cooldown.instant # cells[position].cooldown.instant)
            => cells'[position].cooldown.instant - cells[position].cooldown.instant
                    >= cells[position].cooldown.duration]_vars

\* C15 witness: after an update() the key of duration 2 has fired exactly
\* when 2 had elapsed and the key of duration 3, created at 0, has not.
C15_Witness ==
    /\ last.op = "update"
    /\ now = 2
    /\ cells[<<n_rows - 1, n_total_columns - 1>>].cooldown.duration = 2
    /\ cells[<<n_rows - 1, n_total_columns - 1>>].cooldown.instant = 2
    /\ players["Right"].keys = 2
    /\ cells[<<0, 0>>].cooldown.duration = 3
    /\ cells[<<0, 0>>].cooldown.instant = 0

\* C16: there is no catch-up: a Key whose cooldown has been over for two
\* periods or more generates once in the update() that finds it, a second
\* update() at the same instant changes nothing, and the cooldown is next
\* over a full duration after that firing.
C16_NoCatchUp ==
    [][last'.op = "update"
        => /\ \A k \in 1 .. Len(Order) :
                (/\ Visits(k, "Key")
                 /\ now - Before(k).cells[Order[k]].cooldown.instant
                        >= 2 * Before(k).cells[Order[k]].cooldown.duration)
                => LET position == Order[k]
                       object == Before(k).cells[position]
                       fired == cells'[position].cooldown
                   IN /\ After(k).players[object.owner].keys =
                            Min(saturating_add(Before(k).players[object.owner].keys,
                                               object.generation),
                                settings.max_keys)
                      /\ fired.instant = now
                      /\ \A t \in now .. (now + fired.duration - 1) : ~is_over(fired, t)
                      /\ is_over(fired, now + fired.duration)
           /\ LET again == update(cells', players', now', settings.max_keys)
              IN /\ again.cells = cells'
                 /\ again.players = players']_vars

\* C16 witness: the key of duration 2 and generation 2 was first found by
\* update() after two periods or more, and its owner holds 2 keys.
C16_Witness ==
    /\ last.op = "update"
    /\ now >= 4
    /\ cells[<<n_rows - 1, n_total_columns - 1>>].cooldown.duration = 2
    /\ cells[<<n_rows - 1, n_total_columns - 1>>].cooldown.instant = now
    /\ players["Right"].keys = 2

(***************************************************************************)
(* Placed objects, owners and the two economies                            *)
(***************************************************************************)
\* C17: a Key or Fire created by place_object at time t has a cooldown that
\* starts at t, whatever the instant of the placement's own cooldown, so it
\* is not ready at t, and update() leaves alone every Key or Fire it visits
\* before the object's instant plus its duration.
C17_PlacedObjectNotReady ==
    [][/\ (last'.op = "place_object" /\ last'.result = "true" /\ last'.index \in {0, 1})
            => /\ cells'[last'.position].kind = KindOf(last'.index)
               /\ cells'[last'.position].cooldown.instant = now
               /\ \A t \in now .. (now + cells'[last'.position].cooldown.duration - 1) :
                    ~is_over(cells'[last'.position].cooldown, t)
               /\ players'[last'.player].placements[last'.index].cooldown
                    = players[last'.player].placements[last'.index].cooldown
       /\ last'.op = "update"
            => \A k \in 1 .. Len(Order) :
                ((Visits(k, "Key") \/ Visits(k, "Fire"))
                 /\ now < Before(k).cells[Order[k]].cooldown.instant
                            + Before(k).cells[Order[k]].cooldown.duration)
                => After(k) = Before(k)]_vars

\* C17 witness: Left placed two keys from the same entry at time 1, spending
\* all 40 keys, and the update() that ran at time 1 generated nothing.
C17_Witness ==
    /\ last.op = "update"
    /\ now = 1
    /\ players["Left"].keys = 0
    /\ \E first, second \in Positions :
        /\ first # second
        /\ \A position \in {first, second} :
            /\ cells[position] # None
            /\ cells[position].kind = "Key"
            /\ cells[position].owner = "Left"
            /\ cells[position].generation = 10
            /\ cells[position].cooldown.instant = now
            /\ PlacementCooldown("Left", 0).instant = 0

\* C19: update() never gives a cell an owner it did not have, and the owner
\* recorded in a cell changes only in a successful place_object at that
\* position, to the placing player.
C19_OwnerImmutable ==
    [][/\ last'.op = "update"
            => /\ \A position \in Positions :
                    cells'[position] # None
                    => /\ cells[position] # None
                       /\ cells'[position].owner = cells[position].owner
               /\ \A k \in 1 .. Len(Order), position \in Positions :
                    After(k).cells[position] # None
                    => /\ Before(k).cells[position] # None
                       /\ After(k).cells[position].owner = Before(k).cells[position].owner
       /\ \A position \in Positions :
            (/\ cells'[position] # None
             /\ (cells[position] = None \/ cells[position].owner # cells'[position].owner))
            => /\ last'.op = "place_object"
               /\ last'.result = "true"
               /\ last'.position = position
               /\ cells'[position].owner = last'.player
       /\ (last'.op = "place_object" /\ last'.result = "true")
            => cells'[last'.position].owner = last'.player]_vars

\* C19 witness: a player has just placed an object on a cell that held an
\* object of the other player, and owns the cell's object now.
C19_Witness ==
    /\ last.op = "place_object"
    /\ last.result = "true"
    /\ last.replaced = toggle(last.player)
    /\ cells[last.position].owner = last.player

\* C20: place_object by a player leaves the other player's keys and
\* placement cooldowns as they were, whatever its result, and a Key visited
\* by update() leaves the data of the player who does not own it as it was,
\* in whichever half it stands.
C20_EconomiesIndependent ==
    [][/\ last'.op = "place_object"
            => players'[toggle(last'.player)] = players[toggle(last'.player)]
       /\ last'.op = "update"
            => \A k \in 1 .. Len(Order) :
                Visits(k, "Key")
                => LET owner == Before(k).cells[Order[k]].owner
                   IN /\ After(k).players[toggle(owner)] = Before(k).players[toggle(owner)]
                      /\ After(k).players[owner].placements
                            = Before(k).players[owner].placements]_vars

\* C20 witness: a Left key standing in the Right half next to the division
\* line has generated: Left holds 40 - 20 + 10 keys, Right still none.
C20_Witness ==
    /\ last.op = "update"
    /\ now = 1
    /\ cells[<<0, n_columns>>] # None
    /\ cells[<<0, n_columns>>].kind = "Key"
    /\ cells[<<0, n_columns>>].owner = "Left"
    /\ cells[<<0, n_columns>>].cooldown.instant = now
    /\ players["Left"].keys = 30
    /\ players["Right"].keys = 0

(***************************************************************************)
(* Construction                                                            *)
(***************************************************************************)
\* C18: GameBuilder::new fails when n_columns = 0, n_rows = 0, the base span
\* is empty or ends beyond n_rows, and finish fails without player data; no
\* game exists after a failure; for every other setting new yields a board
\* of n_rows x 2 * n_columns empty cells, and object changes the preset cell
\* only.
C18_BuilderFailures ==
    [][/\ last'.op = "new"
            => IF \/ settings.n_columns = 0
                  \/ settings.n_rows = 0
                  \/ settings.base_span.start >= settings.base_span.end
                  \/ settings.base_span.end > settings.n_rows
               THEN /\ last'.result = "Err"
                    /\ status' = "failed"
                    /\ cells' = NoBoard
               ELSE /\ last'.result = "Ok"
                    /\ status' = "building"
                    /\ DOMAIN cells' = (0 .. (settings.n_rows - 1))
                                            \X (0 .. (2 * settings.n_columns - 1))
                    /\ \A position \in DOMAIN cells' : cells'[position] = None
       /\ (last'.op = "object" /\ last'.result = "Ok")
            => /\ DOMAIN cells' = DOMAIN cells
               /\ \A position \in DOMAIN cells \ {last'.index} :
                    cells'[position] = cells[position]
       /\ last'.op = "finish"
            => IF players = NoPlayers
               THEN last'.result = "Err" /\ status' = "failed"
               ELSE last'.result = "Ok" /\ status' = "running"
       /\ status = "failed" => status' = "failed"]_vars

(***************************************************************************)
(* Fires without a target, barriers                                        *)
(***************************************************************************)
\* the Fire the pass finds in the j-th cell fires at the object in `victim`
Hits(j, victim) ==
    /\ Fires(j)
    /\ victim # Order[j]
    /\ victim[1] = Order[j][1]
    /\ LET fire == Before(j).cells[Order[j]]
           occupied == OccupiedColumns(Before(j).cells, victim[1], toggle(fire.owner))
       IN /\ victim[2] \in occupied
          /\ victim[2] = Nearest(toggle(fire.owner), occupied)

\* C21: a Fire whose cooldown is over when update() visits it, with no
\* object in the opposing half of its row, has its cooldown reset to now, so
\* it is not over again before a full duration, and nothing else changes.
C21_FireWithoutTarget ==
    [][last'.op = "update"
        => \A k \in 1 .. Len(Order) :
            (/\ Fires(k)
             /\ OccupiedColumns(Before(k).cells, Order[k][1],
                                toggle(Before(k).cells[Order[k]].owner)) = {})
            => /\ After(k) = [Before(k) EXCEPT !.cells[Order[k]].cooldown.instant = now]
               /\ \A t \in now .. (now + After(k).cells[Order[k]].cooldown.duration - 1) :
                    ~is_over(After(k).cells[Order[k]].cooldown, t)
               /\ cells'[Order[k]] = After(k).cells[Order[k]]]_vars

\* C21 witness: at time 1 both Left fires of the first row have fired in
\* update() and the Right half of the row is empty; one shot removes at most
\* the key, so a fire has fired with no target.
C21_Witness ==
    /\ last.op = "update"
    /\ last.result = "Ok"
    /\ now = 1
    /\ \A column \in HalfColumns("Left") :
        /\ cells[<<0, column>>] # None
        /\ cells[<<0, column>>].kind = "Fire"
        /\ cells[<<0, column>>].owner = "Left"
        /\ cells[<<0, column>>].cooldown.instant = now
    /\ OccupiedColumns(cells, 0, "Right") = {}

\* C22: visiting a Barrier in update() changes nothing; a Barrier cell
\* changes only by clear_cell, by a successful place_object on it, or in
\* update() as the target of a Fire, which lowers its health by the damage
\* or removes it when the damage is at least its health.
C22_BarrierIsPassive ==
    [][/\ last'.op = "update"
            => \A k \in 1 .. Len(Order) : Visits(k, "Barrier") => After(k) = Before(k)
       /\ \A position \in Positions :
            (/\ cells[position] # None
             /\ cells[position].kind = "Barrier"
             /\ cells'[position] # cells[position])
            => \/ /\ last'.op = "clear_cell"
                  /\ last'.result = "Ok"
                  /\ cells'[position] = None
               \/ /\ last'.op = "place_object"
                  /\ last'.result = "true"
                  /\ last'.position = position
               \/ /\ last'.op = "update"
                  /\ \E k \in 1 .. Len(Order) : Hits(k, position)
                  /\ \A k \in 1 .. Len(Order) :
                        Before(k).cells[position] # After(k).cells[position]
                        => /\ Hits(k, position)
                           /\ After(k).cells[position]
                                = Damaged(Before(k).cells[position],
                                          Before(k).cells[Order[k]].damage)
                  /\ cells'[position] # None
                        => /\ cells'[position].kind = "Barrier"
                           /\ cells'[position].health < cells[position].health]_vars

\* C22 witness: after an update() a Barrier stands with less than its full
\* health: it was visited, and hit by a Fire without being removed.
C22_Witness ==
    /\ last.op = "update"
    /\ \E position \in Positions :
        /\ cells[position] # None
        /\ cells[position].kind = "Barrier"
        /\ cells[position].health < cells[position].max_health

ControllerHalf(player) ==
    IF player = "Left" THEN 0 .. (settings.n_columns - 1)
    ELSE settings.n_columns .. (2 * settings.n_columns - 1)

\* C24: in a running controller each player's selected cell is a cell of
\* the board in that player's half; a selection move wraps the row modulo
\* n_rows and the column modulo n_columns inside the half; button_event never
\* fails, so its clear_cell and place_object calls never return the
\* out-of-bounds error; every object on the board, all placed through the
\* controller, stands in its owner's half.
C24_SelectionInOwnHalf ==
    [][/\ status' = "running"
            => \A player \in Player :
                /\ settings'.selected_cells[player] \in DOMAIN cells'
                /\ settings'.selected_cells[player][2] \in ControllerHalf(player)
       /\ last'.op = "button_event"
            => /\ last'.result = "Ok"
               /\ \A player \in Player :
                    LET before == settings.selected_cells[player]
                        after == settings'.selected_cells[player]
                        first == IF player = "Left" THEN 0 ELSE settings.n_columns
                        final == first + settings.n_columns - 1
                    IN CASE last'.button = <<player, "up">> ->
                                after = <<IF before[1] = 0 THEN settings.n_rows - 1
                                          ELSE before[1] - 1, before[2]>>
                         [] last'.button = <<player, "down">> ->
                                after = <<IF before[1] = settings.n_rows - 1 THEN 0
                                          ELSE before[1] + 1, before[2]>>
                         [] last'.button = <<player, "left">> ->
                                after = <<before[1],
                                          IF before[2] = first THEN final ELSE before[2] - 1>>
                         [] last'.button = <<player, "right">> ->
                                after = <<before[1],
                                          IF before[2] = final THEN first ELSE before[2] + 1>>
                         [] OTHER -> after = before
       /\ \A position \in DOMAIN cells' :
            cells'[position] # None
            => position[2] \in ControllerHalf(cells'[position].owner)]_vars

(***************************************************************************)
(* The cooldown cycle                                                      *)
(***************************************************************************)
\* C25: while time keeps advancing and update() keeps being called, every
\* Key of the board, none of which is ever removed, fires again and again,
\* and each player's keys, of which none is spent, reach max_keys and stay
\* there.
C25_KeysReachMaxKeys ==
    /\ \A position \in {p \in Positions : CooldownBoard[p] # None} :
        []<>(last.op = "update" /\ cells[position].cooldown.instant = now)
    /\ \A player \in Player : <>[](players[player].keys = settings.max_keys)

\* C25 witness: an update() has left both players with max_keys keys.
C25_Witness ==
    /\ last.op = "update"
    /\ \A player \in Player : players[player].keys = settings.max_keys
    /\ \E position \in Positions :
        cells[position] # None /\ cells[position].cooldown.instant = now

(***************************************************************************)
(* Territory and targets                                                   *)
(***************************************************************************)
\* every object of the board stands in the half of its owner
Territory(c) ==
    \A position \in Positions :
        c[position] # None => position[2] \in HalfColumns(c[position].owner)

\* C26 (as stated): in every reachable state every object in columns
\* [0, n_columns) is owned by Left and every object in columns
\* [n_columns, 2 * n_columns) by Right.
C26_Territory == Territory(cells)

\* C26 (amended): clear_cell, update and every successful place_object at a
\* position in the placing player's half keep every object in the half of
\* its owner; place_object itself accepts a position in either half.
C26_TerritoryPreserved ==
    [][(/\ Territory(cells)
        /\ (last'.op = "place_object" /\ last'.result = "true")
                => last'.position[2] \in HalfColumns(last'.player))
       => Territory(cells')]_vars

\* C26 witness: a player has just placed an object on an empty cell of the
\* own half, and every object stands in its owner's half.
C26_Witness ==
    /\ last.op = "place_object"
    /\ last.result = "true"
    /\ last.replaced = "None"
    /\ last.position[2] \in HalfColumns(last.player)
    /\ cells[last.position].owner = last.player
    /\ Territory(cells)

\* C27 (as stated): every cell that a firing Fire of owner P damages holds
\* an object owned by the opponent of P.
C27_FireHitsOpponentOnly ==
    [][last'.op = "update"
        => \A k \in 1 .. Len(Order) :
            Fires(k)
            => \A position \in Positions \ {Order[k]} :
                After(k).cells[position] # Before(k).cells[position]
                => Before(k).cells[position].owner
                        = toggle(Before(k).cells[Order[k]].owner)]_vars

\* C27 (amended): every cell that a firing Fire of owner P damages lies in
\* the opposing half of the Fire's row; the object there is owned by the
\* opponent of P whenever every object stands in its owner's half.
C27_FireHitsOpposingHalf ==
    [][last'.op = "update"
        => \A k \in 1 .. Len(Order) :
            Fires(k)
            => \A position \in Positions \ {Order[k]} :
                After(k).cells[position] # Before(k).cells[position]
                => /\ position[1] = Order[k][1]
                   /\ position[2] \in HalfColumns(toggle(Before(k).cells[Order[k]].owner))
                   /\ Territory(Before(k).cells)
                        => Before(k).cells[position].owner
                                = toggle(Before(k).cells[Order[k]].owner)]_vars

\* C27 witness: with every object in its owner's half, an update() has run
\* in which the Left fires of the first row removed the Right key and
\* damaged the Right barrier behind it.
C27_Witness ==
    /\ last.op = "update"
    /\ now = 1
    /\ Territory(cells)
    /\ cells[<<0, n_columns>>] = None
    /\ cells[<<0, n_total_columns - 1>>] # None
    /\ cells[<<0, n_total_columns - 1>>].owner = "Right"
    /\ cells[<<0, n_total_columns - 1>>].health = 1
    /\ cells[<<0, n_columns - 1>>] # None
    /\ cells[<<0, n_columns - 1>>].kind = "Fire"
    /\ cells[<<0, n_columns - 1>>].cooldown.instant = now

\* C28: update() never decreases a player's keys.
C28_UpdateKeepsKeys ==
    [][last'.op = "update"
        => \A player \in Player : players'[player].keys >= players[player].keys]_vars

\* C29: update() creates, moves and heals no object: a cell occupied after
\* update() was occupied before by an object of the same kind, owner and
\* max_health (and generation or damage) and of no lower health, and a cell
\* emptied by update() held the target of a Fire whose damage was at least
\* the target's health.
C29_UpdateOnlyDamages ==
    [][last'.op = "update"
        => \A position \in Positions :
            /\ cells'[position] # None
                => /\ cells[position] # None
                   /\ cells'[position].kind = cells[position].kind
                   /\ cells'[position].owner = cells[position].owner
                   /\ cells'[position].max_health = cells[position].max_health
                   /\ cells'[position].health <= cells[position].health
                   /\ [cells'[position] EXCEPT !.health = 0]
                        \in { [cells[position] EXCEPT !.health = 0],
                              IF cells[position].kind = "Barrier"
                              THEN [cells[position] EXCEPT !.health = 0]
                              ELSE [cells[position] EXCEPT !.health = 0,
                                                           !.cooldown.instant = now] }
            /\ (cells[position] # None /\ cells'[position] = None)
                => \E k \in 1 .. Len(Order) : Kills(k, position)]_vars

\* C29 witness: an update() at time 1 in which the Left fire of the last
\* row removed the Right fire facing it and a Left fire of the first row
\* left the Right barrier with health 1.
C29_Witness ==
    /\ last.op = "update"
    /\ now = 1
    /\ cells[<<n_rows - 1, n_columns - 1>>] # None
    /\ cells[<<n_rows - 1, n_columns - 1>>].cooldown.instant = now
    /\ cells[<<n_rows - 1, n_columns>>] = None
    /\ cells[<<0, n_total_columns - 1>>] # None
    /\ cells[<<0, n_total_columns - 1>>].kind = "Barrier"
    /\ cells[<<0, n_total_columns - 1>>].health < cells[<<0, n_total_columns - 1>>].max_health

\* a Left fire in Left's half and a Right fire in Right's half of one row,
\* each the other's nearest target, both with the cooldown over and each
\* with a damage of at least the other's health
MutualKill(row, left, right) ==
    LET l == cells[<<row, left>>]
        r == cells[<<row, right>>]
    IN /\ l # None /\ l.kind = "Fire" /\ l.owner = "Left"
       /\ r # None /\ r.kind = "Fire" /\ r.owner = "Right"
       /\ left = Nearest("Left", OccupiedColumns(cells, row, "Left"))
       /\ right = Nearest("Right", OccupiedColumns(cells, row, "Right"))
       /\ now - l.cooldown.instant >= l.cooldown.duration
       /\ now - r.cooldown.instant >= r.cooldown.duration
       /\ l.damage >= r.health
       /\ r.damage >= l.health

\* C30 (as stated): after one update() of a mutual kill the Right fire is
\* removed and the Left fire is still present with its health unchanged.
C30_LeftWinsMutualKill ==
    [][last'.op = "update"
        => \A row \in Rows, left \in HalfColumns("Left"), right \in HalfColumns("Right") :
            MutualKill(row, left, right)
            => /\ cells'[<<row, right>>] = None
               /\ cells'[<<row, left>>] # None
               /\ cells'[<<row, left>>].health = cells[<<row, left>>].health]_vars

\* C30 (amended): the same, when the row holds no other Fire owned by
\* Right (a second Right fire is visited after the first one is removed and
\* hits the Left fire).
C30_LeftWinsSingleDuel ==
    [][last'.op = "update"
        => \A row \in Rows, left \in HalfColumns("Left"), right \in HalfColumns("Right") :
            (/\ MutualKill(row, left, right)
             /\ \A column \in Columns \ {right} :
                    LET other == cells[<<row, column>>]
                    IN ~(other # None /\ other.kind = "Fire" /\ other.owner = "Right"))
            => /\ cells'[<<row, right>>] = None
               /\ cells'[<<row, left>>] # None
               /\ cells'[<<row, left>>].health = cells[<<row, left>>].health]_vars

\* C30 witness: in the last row of the duel board, where no second Right
\* fire stands, the update() at time 1 removed the Right fire and left the
\* Left fire, which has fired, at its full health.
C30_Witness ==
    /\ last.op = "update"
    /\ now = 1
    /\ cells[<<n_rows - 1, n_columns - 1>>] # None
    /\ cells[<<n_rows - 1, n_columns - 1>>].kind = "Fire"
    /\ cells[<<n_rows - 1, n_columns - 1>>].owner = "Left"
    /\ cells[<<n_rows - 1, n_columns - 1>>].health = 10
    /\ cells[<<n_rows - 1, n_columns - 1>>].cooldown.instant = now
    /\ cells[<<n_rows - 1, n_columns>>] = None
    /\ cells[<<n_rows - 1, n_total_columns - 1>>] = None

\* C31: clear_cell does not depend on the calling player (for every position
\* both players' calls give the same result and the same board, so a player
\* removes an object of the opponent), and no player's keys increase in a
\* place_object or a clear_cell: keys increase in update() only.
C31_ClearCellIgnoresCaller ==
    /\ [](\A position \in AnyPosition :
            clear_cell(cells, "Left", position) = clear_cell(cells, "Right", position))
    /\ [][/\ last'.op \in {"place_object", "clear_cell"}
            => \A player \in Player : players'[player].keys <= players[player].keys
          /\ (\E player \in Player : players'[player].keys > players[player].keys)
            => last'.op = "update"]_vars

\* C31 witness: a player has just cleared a cell that held an object of the
\* opponent.
C31_Witness ==
    /\ last.op = "clear_cell"
    /\ last.result = "Ok"
    /\ last.replaced \in Player
    /\ last.replaced # last.player

\* a Fire of the owner with damage > 0 stands in the cell
FireStands(position, owner) ==
    /\ cells[position] # None
    /\ cells[position].kind = "Fire"
    /\ cells[position].owner = owner
    /\ cells[position].damage > 0

\* C32: while time keeps advancing and update() is called again and again
\* with nothing placed, a Fire with damage > 0 that is never removed
\* eventually empties the opposing half of its row, and the objects of a
\* half-row go nearest to the division line first.
C32_FireEmptiesHalfRow ==
    /\ \A position \in Positions, owner \in Player :
            [](FireStands(position, owner))
                => <>(OccupiedColumns(cells, position[1], toggle(owner)) = {})
    /\ [][last'.op = "update"
            => \A row \in Rows, player \in Player :
                \A gone \in OccupiedColumns(cells, row, player)
                                \ OccupiedColumns(cells', row, player),
                   kept \in OccupiedColumns(cells', row, player) :
                    Nearest(player, {gone, kept}) = gone]_vars

\* C33: GameController::new returns the error "invalid selected cell" and
\* builds no controller whenever a player's selected cell has a row >=
\* n_rows or a column outside that player's half, the Right player's column
\* below n_columns included.
C33_InvalidSelectedCellIsError ==
    [][last'.op = "new"
        => ((\E player \in Player :
                \/ settings.selected_cells[player][1] >= settings.n_rows
                \/ settings.selected_cells[player][2] \notin ControllerHalf(player))
            => /\ last'.result = "Err"
               /\ status' = "failed")]_vars

====
